---- MODULE Spec2Model ----
(***************************************************************************)
(* A model of trello-to-github (src/index.ts, lines 507-1330): one run of  *)
(* the migration driver.  The board export, the mapping document and the   *)
(* live state of the GitHub repository are the inputs; the run validates   *)
(* them, reconciles labels, lists and members, asks for confirmation and   *)
(* then issues the create calls.  Every remote call is recorded in `calls`.*)
(***************************************************************************)
EXTENDS Integers, Sequences, FiniteSets, TLC

\* ------------------------------------------------------------------ bounds
\* Longest `labels`, `lists` and `users` arrays of the mapping document and
\* the largest number of cards of the board export that are enumerated.
MaxLabelMaps == 2
MaxListMaps == 2
MaxUsers == 2
MaxCards == 2
MaxActions == 3

\* ----------------------------------------------------------------- helpers
\* All sequences over S of length at most n.
SeqUpTo(S, n) == UNION {[1..k -> S] : k \in 0..n}

\* All sequences over S of length at most n without a repeated element.
DistinctSeqUpTo(S, n) ==
  {s \in SeqUpTo(S, n) : \A i, j \in 1..Len(s) : i # j => s[i] # s[j]}

\* Array.prototype.find: the index of the first element satisfying P, 0 if none.
FindIdx(s, P(_)) ==
  IF \E i \in 1..Len(s) : P(s[i])
  THEN CHOOSE i \in 1..Len(s) : P(s[i]) /\ \A j \in 1..(i - 1) : ~P(s[j])
  ELSE 0

\* Map.prototype.set on a map held as a function: the new value replaces an old one.
MapSet(m, k, v) == (k :> v) @@ m

\* A `string | number | undefined` value of the mapping document.
Str(s) == [kind |-> "str", num |-> 0, str |-> s]
Num(n) == [kind |-> "int", num |-> n, str |-> ""]
Absent == [kind |-> "none", num |-> 0, str |-> ""]

\* JavaScript truthiness of such a value: `if (mapping.label)`.
Truthy(k) == \/ k.kind = "str" /\ k.str # ""
             \/ k.kind = "int" /\ k.num # 0

\* `Number.isInteger(key) && id === key`
IntIs(k, id) == k.kind = "int" /\ k.num = id

\* `name === key`
StrIs(k, name) == k.kind = "str" /\ k.str = name

\* ------------------------------------------------------------ board export
TrelloLists ==
  << [id |-> "L1", name |-> "Todo", closed |-> FALSE],
     [id |-> "L2", name |-> "Done", closed |-> FALSE] >>

TrelloMembers ==
  << [id |-> "m1", username |-> "alice", fullName |-> "Alice Ames"],
     [id |-> "m2", username |-> "bob", fullName |-> "Bob Bell"] >>

TLabel(n, c) == [name |-> n, color |-> c]

\* Boards' label sets: Trello allows two labels of one name.  Every board
\* holds the labels the cards carry.
TrelloLabelBoards ==
  { << TLabel("RFC", "blue"), TLabel("bug", "red") >>,
    << TLabel("bug", "red"), TLabel("RFC", "blue") >>,
    << TLabel("RFC", "blue"), TLabel("bug", "red"), TLabel("RFC", "green") >> }

\* Cards; `labels` holds the names of a card's labels, the one field of them
\* that is read.  The third card's id is textually the id of list L2 (ids are plain
\* strings in the schema), which makes lookups keyed by the wrong id visible.
CardOptions ==
  { [id |-> "c1", name |-> "first", closed |-> FALSE, idList |-> "L1",
     labels |-> << "RFC" >>, idMembers |-> << "m1" >>,
     desc |-> "Write the RFC", url |-> "https://trello.com/c/c1",
     idChecklists |-> << "k1" >>,
     attachments |-> << [name |-> "draft", url |-> "https://files/draft"] >>],
    [id |-> "c2", name |-> "second", closed |-> TRUE, idList |-> "L2",
     labels |-> << "RFC", "bug" >>, idMembers |-> << "m2", "m9" >>,
     desc |-> "", url |-> "https://trello.com/c/c2",
     idChecklists |-> << >>, attachments |-> << >>],
    [id |-> "L2", name |-> "third", closed |-> FALSE, idList |-> "L1",
     labels |-> << >>, idMembers |-> << >>,
     desc |-> "", url |-> "https://trello.com/c/c3",
     idChecklists |-> << "k9" >>, attachments |-> << >>] }

CardBoards == DistinctSeqUpTo(CardOptions, MaxCards)

TrelloChecklists ==
  << [id |-> "k1", name |-> "Steps", idCard |-> "c1",
      checkItems |-> << [name |-> "draft", state |-> "complete"],
                        [name |-> "review", state |-> "incomplete"] >>] >>

\* Board actions: comment events (everything else is stripped by the schema).
TrelloActions ==
  << [type |-> "commentCard", id |-> "a1", idCard |-> "c1",
      memberCreator |-> [id |-> "m1", username |-> "alice"],
      text |-> "hello", date |-> 1] >>

\* An action the schema stripped of its fields: its type is not "commentCard".
OtherAction ==
  [type |-> "other", id |-> "", idCard |-> "",
   memberCreator |-> [id |-> "", username |-> ""], text |-> "", date |-> 0]

Comment(id, idCard, member, username, text, date) ==
  [type |-> "commentCard", id |-> id, idCard |-> idCard,
   memberCreator |-> [id |-> member, username |-> username],
   text |-> text, date |-> date]

\* The actions a board's export is drawn from: comments of card c1 out of
\* timestamp order and with a tie, a comment of card c2, a stripped action.
ActionOptions ==
  { Comment("a3", "c1", "m1", "alice", "third", 3),
    Comment("a1", "c1", "m2", "bob", "first", 1),
    Comment("a2", "c1", "m1", "alice", "tie", 1),
    Comment("a4", "c2", "m2", "bob", "other card", 2),
    OtherAction }

ActionBoards == DistinctSeqUpTo(ActionOptions, MaxActions)

\* -------------------------------------------------------- mapping document
NoColor == [given |-> FALSE, hash |-> FALSE, hex |-> ""]
Color(hash, hex) == [given |-> TRUE, hash |-> hash, hex |-> hex]

LabelMapEntries ==
  { [trello |-> "RFC", github |-> Str("Request For Comments"), create |-> TRUE,
     color |-> Color(TRUE, "0000ff")],
    [trello |-> "RFC", github |-> Str("bug"), create |-> FALSE, color |-> NoColor],
    [trello |-> "bug", github |-> Num(1), create |-> FALSE, color |-> NoColor],
    [trello |-> "bug", github |-> Str("wontfix"), create |-> FALSE, color |-> NoColor],
    [trello |-> "bug", github |-> Str("defect"), create |-> TRUE, color |-> NoColor] }

ListMap(l, lab, ms, st) == [list |-> l, label |-> lab, milestone |-> ms, status |-> st]

ListMapEntries ==
  { ListMap("L1", Absent, Num(1), Str("In Progress")),
    ListMap("Todo", Str("bug"), Str("v2"), Str("opt1")),
    ListMap("Done", Num(1), Num(12), Absent),
    ListMap("L2", Absent, Absent, Str("In Progress")),
    ListMap("L2", Str("zzz"), Str("v9"), Str("Nope")),
    ListMap("L2", Absent, Str("v9"), Str("Nope")),
    ListMap("L2", Absent, Absent, Str("Nope")),
    ListMap("Nope", Str("bug"), Absent, Absent),
    ListMap("L1", Num(3), Num(1), Absent) }

SkipOptions ==
  { << >>, << "Done" >>, << "L2" >>, << "Nope" >>, << "Todo", "L2" >> }

UserEntries ==
  { [trello |-> "m1", github |-> "gh-by-id"],
    [trello |-> "alice", github |-> "gh-by-username"],
    [trello |-> "Alice Ames", github |-> "gh-by-fullname"],
    [trello |-> "bob", github |-> "gh-bob"] }

\* `map.project`: 0 stands for an undeclared project.
ProjectOptions == {0, 5}

\* ------------------------------------------------------- the GitHub side
GLabel(i, n, hex) == [id |-> i, name |-> n, color |-> Color(FALSE, hex)]
NoGLabel == [id |-> 0, name |-> "", color |-> NoColor]

GithubLabelSets ==
  { << >>,
    << GLabel(1, "bug", "d73a4a") >>,
    << GLabel(1, "bug", "d73a4a"), GLabel(2, "Request For Comments", "0000ff") >> }

GithubMilestones ==
  << [id |-> 11, number |-> 1, title |-> "v1"],
     [id |-> 12, number |-> 2, title |-> "v2"] >>

StatusFieldOptions ==
  << [id |-> "opt1", name |-> "Todo", color |-> "GRAY"],
     [id |-> "opt2", name |-> "In Progress", color |-> "BLUE"] >>

\* The live state of the repository and of the project (read-only lookups).
Remote(labels) ==
  [labels |-> labels, milestones |-> GithubMilestones,
   projectId |-> "PVT_1", projectName |-> "Board", statusFieldId |-> "F_status",
   statusFieldOptions |-> StatusFieldOptions]

\* ------------------------------------------------------------------ state
VARIABLES
  trello,            \* the parsed board export
  map,               \* the parsed mapping document
  opts,              \* command-line options: keepClosed, dryRun
  parseOk,           \* whether each document passed its schema
  remote,            \* live state of the GitHub repository and project
  pc,                \* the driver's position
  githubLabels,      \* data of GET /repos/{owner}/{repo}/labels
  githubMilestones,  \* data of GET /repos/{owner}/{repo}/milestones
  users,             \* one entry per looked-up mapping user
  projectInfo,       \* getProjectInfo()'s result; present = FALSE is null
  labels,            \* the classified labels
  invalidLists, validMilestones, missingMilestones,
  usedStatusWithoutProject, validStatusFields, missingStatusFields,
  skippedLists,
  asked,             \* confirmation prompts shown, with the answers
  k,                 \* loop index: users, then labels to create, then comments
  i,                 \* index of the card being transferred
  issue,             \* the issue just created: number and node_id
  itemId,            \* the project item just added
  calls,             \* every remote call issued so far, in order
  exitCode,          \* -1 while running
  exitVia,           \* "fail" | "cancel" | "throw" | "outro"
  exitAt,            \* the position at which the process ended
  log                \* the error reports written so far (p.log.error), in order

inputs == << trello, map, opts, parseOk, remote >>
fetched == << githubLabels, githubMilestones, users, projectInfo >>
tables == << labels, invalidLists, validMilestones, missingMilestones,
             usedStatusWithoutProject, validStatusFields, missingStatusFields,
             skippedLists >>
loop == << k, i, issue, itemId >>
ending == << exitCode, exitVia, exitAt >>
vars == << inputs, fetched, tables, pc, asked, loop, calls, ending, log >>

\* ---------------------------------------------------- classified labels
NoTLabel == TLabel("", "")
NoList == [id |-> "", name |-> "", closed |-> FALSE]

Label(type, tl, gh, lookup, list) ==
  [type |-> type, trello |-> tl, github |-> gh, githubLookup |-> lookup,
   trelloList |-> list]

\* A lookup that forgets the id: only the name is compared.
FindGithubLabelByName(ghLabels, key) ==
  FindIdx(ghLabels, LAMBDA gh : StrIs(key, gh.name))

\* `githubLabels.data.find(...)`: the label whose id or name is the key.
FindGithubLabel(ghLabels, key) ==
  FindIdx(ghLabels, LAMBDA gh : IntIs(key, gh.id) \/ StrIs(key, gh.name))

\* A classification by the last mapping entry of the label's name.
ClassifyLabelLastEntry(trelloLabel, mapLabels, ghLabels) ==
  LET hits == {n \in 1..Len(mapLabels) : mapLabels[n].trello = trelloLabel.name}
  IN IF hits = {}
     THEN Label("skipped", trelloLabel, NoGLabel, Absent, NoList)
     ELSE LET mapped == mapLabels[CHOOSE n \in hits : \A o \in hits : o <= n]
          IN IF mapped.create
             THEN Label("toCreate", trelloLabel,
                        [id |-> 0, name |-> mapped.github.str, color |-> mapped.color],
                        Absent, NoList)
             ELSE LET g == FindGithubLabel(ghLabels, mapped.github)
                  IN IF g = 0
                     THEN Label("missing", trelloLabel, NoGLabel, mapped.github, NoList)
                     ELSE Label("mapped", trelloLabel, ghLabels[g], Absent, NoList)

\* A classification that looks at the repository first: a label to create
\* whose name exists already is taken as mapped to the existing label.
ClassifyLabelExistingFirst(trelloLabel, mapLabels, ghLabels) ==
  LET m == FindIdx(mapLabels, LAMBDA e : e.trello = trelloLabel.name)
  IN IF m = 0
     THEN Label("skipped", trelloLabel, NoGLabel, Absent, NoList)
     ELSE LET mapped == mapLabels[m]
              g == FindGithubLabel(ghLabels, mapped.github)
          IN IF g # 0
             THEN Label("mapped", trelloLabel, ghLabels[g], Absent, NoList)
             ELSE IF mapped.create
             THEN Label("toCreate", trelloLabel,
                        [id |-> 0, name |-> mapped.github.str, color |-> mapped.color],
                        Absent, NoList)
             ELSE Label("missing", trelloLabel, NoGLabel, mapped.github, NoList)

\* One iteration of the loop over trello.labels: the entry it pushes.
ClassifyLabel(trelloLabel, mapLabels, ghLabels) ==
  LET m == FindIdx(mapLabels, LAMBDA e : e.trello = trelloLabel.name)
  IN IF m = 0
     THEN Label("skipped", trelloLabel, NoGLabel, Absent, NoList)
     ELSE LET mapped == mapLabels[m]
          IN IF mapped.create
             THEN Label("toCreate", trelloLabel,
                        [id |-> 0, name |-> mapped.github.str, color |-> mapped.color],
                        Absent, NoList)
             ELSE LET g == FindGithubLabel(ghLabels, mapped.github)
                  IN IF g = 0
                     THEN Label("missing", trelloLabel, NoGLabel, mapped.github, NoList)
                     ELSE Label("mapped", trelloLabel, ghLabels[g], Absent, NoList)

RECURSIVE LabelLoop(_, _, _, _)
LabelLoop(acc, trelloLabels, mapLabels, ghLabels) ==
  IF trelloLabels = << >>
  THEN acc
  ELSE LabelLoop(Append(acc, ClassifyLabel(Head(trelloLabels), mapLabels, ghLabels)),
                 Tail(trelloLabels), mapLabels, ghLabels)

\* ---------------------------------------------------------- list mappings
\* A resolution that knows the lists by id only.
FindTrelloListById(lists, key) ==
  FindIdx(lists, LAMBDA l : l.id = key)

\* `trello.lists.find(list => list.id === key || list.name === key)`
FindTrelloList(lists, key) ==
  FindIdx(lists, LAMBDA l : l.id = key \/ l.name = key)

FindMilestone(milestones, key) ==
  FindIdx(milestones,
          LAMBDA ms : \/ key.kind = "int" /\ (ms.id = key.num \/ ms.number = key.num)
                      \/ StrIs(key, ms.title))

FindStatusOption(options, key) ==
  FindIdx(options, LAMBDA f : StrIs(key, f.id) \/ StrIs(key, f.name))

\* The status part of one iteration (the last of its three parts).
StatusPart(acc, mapping, trelloList, pInfo) ==
  IF pInfo.present /\ Truthy(mapping.status)
  THEN IF ~pInfo.present
       THEN [acc EXCEPT !.usedStatusWithoutProject = TRUE]
       ELSE LET f == FindStatusOption(pInfo.statusFieldOptions, mapping.status)
            IN IF f = 0
               THEN [acc EXCEPT !.missingStatusFields = Append(@, mapping.status)]
               ELSE [acc EXCEPT !.validStatusFields =
                                  MapSet(@, trelloList.id, pInfo.statusFieldOptions[f])]
  ELSE acc

\* The milestone part of one iteration; `continue` skips the status part.
MilestonePart(acc, mapping, trelloList, milestones, pInfo) ==
  IF Truthy(mapping.milestone)
  THEN LET ms == FindMilestone(milestones, mapping.milestone)
       IN IF ms = 0
          THEN [acc EXCEPT !.missingMilestones = Append(@, mapping.milestone)]
          ELSE StatusPart([acc EXCEPT !.validMilestones =
                                        MapSet(@, trelloList.id, milestones[ms])],
                          mapping, trelloList, pInfo)
  ELSE StatusPart(acc, mapping, trelloList, pInfo)

\* The label part of one iteration; `continue` skips the other two parts.
LabelPart(acc, mapping, trelloList, ghLabels, milestones, pInfo) ==
  IF Truthy(mapping.label)
  THEN LET g == FindGithubLabel(ghLabels, mapping.label)
       IN IF g = 0
          THEN [acc EXCEPT !.labels =
                  Append(@, Label("missingList", NoTLabel, NoGLabel, mapping.label,
                                  trelloList))]
          ELSE MilestonePart(
                 [acc EXCEPT !.labels =
                    Append(@, Label("listMapped", NoTLabel, ghLabels[g], Absent,
                                    trelloList))],
                 mapping, trelloList, milestones, pInfo)
  ELSE MilestonePart(acc, mapping, trelloList, milestones, pInfo)

\* An iteration that tags the label of an entry whose list is not on the board.
ListStepTaggingUnresolved(acc, mapping, lists, ghLabels, milestones, pInfo) ==
  LET l == FindTrelloList(lists, mapping.list)
  IN IF l = 0
     THEN [acc EXCEPT !.invalidLists = Append(@, mapping.list),
                      !.labels =
                        IF Truthy(mapping.label)
                        THEN Append(@, Label("missingList", NoTLabel, NoGLabel,
                                             mapping.label, NoList))
                        ELSE @]
     ELSE LabelPart(acc, mapping, lists[l], ghLabels, milestones, pInfo)

\* One iteration of the loop over map.lists.
ListStep(acc, mapping, lists, ghLabels, milestones, pInfo) ==
  LET l == FindTrelloList(lists, mapping.list)
  IN IF l = 0
     THEN [acc EXCEPT !.invalidLists = Append(@, mapping.list)]
     ELSE LabelPart(acc, mapping, lists[l], ghLabels, milestones, pInfo)

RECURSIVE ListLoop(_, _, _, _, _, _)
ListLoop(acc, mappings, lists, ghLabels, milestones, pInfo) ==
  IF mappings = << >>
  THEN acc
  ELSE ListLoop(ListStep(acc, Head(mappings), lists, ghLabels, milestones, pInfo),
                Tail(mappings), lists, ghLabels, milestones, pInfo)

\* One iteration of the loop over map.skip.lists.
SkipStep(acc, listKey, lists) ==
  LET l == FindTrelloList(lists, listKey)
  IN IF l # 0
     THEN [acc EXCEPT !.skippedLists = Append(@, lists[l])]
     ELSE [acc EXCEPT !.invalidLists = Append(@, listKey)]

RECURSIVE SkipLoop(_, _, _)
SkipLoop(acc, keys, lists) ==
  IF keys = << >>
  THEN acc
  ELSE SkipLoop(SkipStep(acc, Head(keys), lists), Tail(keys), lists)

\* The tables before the loops run.
EmptyTables(classified) ==
  [labels |-> classified, invalidLists |-> << >>, validMilestones |-> << >>,
   missingMilestones |-> << >>, usedStatusWithoutProject |-> FALSE,
   validStatusFields |-> << >>, missingStatusFields |-> << >>,
   skippedLists |-> << >>]

\* The three reconciliation loops, in the order in which they run.
ReconcileAll(brd, mp, ghLabels, milestones, pInfo) ==
  SkipLoop(
    ListLoop(EmptyTables(LabelLoop(<< >>, brd.labels, mp.labels, ghLabels)),
             mp.lists, brd.lists, ghLabels, milestones, pInfo),
    mp.skip.lists, brd.lists)

\* --------------------------------------------------- the derived filters
mappedLabels ==
  SelectSeq(labels, LAMBDA l : l.type \in {"toCreate", "mapped", "listMapped"})
missingLabels ==
  SelectSeq(labels, LAMBDA l : l.type \in {"missing", "missingList"})
skippedLabels == SelectSeq(labels, LAMBDA l : l.type = "skipped")
validMembers == SelectSeq(users, LAMBDA mem : mem.github.present)
invalidMembers == SelectSeq(users, LAMBDA mem : ~mem.github.present)
\* A selection that takes the labels that exist already along.
labelsToCreateAndMapped ==
  SelectSeq(labels, LAMBDA l : l.type = "toCreate" \/ l.type = "mapped")

labelsToCreate == SelectSeq(labels, LAMBDA l : l.type = "toCreate")
\* A collision test that compares ids: a label to create has none.
existingLabelsToCreateById ==
  SelectSeq(labelsToCreate,
            LAMBDA l : \E g \in 1..Len(githubLabels) :
                         githubLabels[g].id = l.github.id)

existingLabelsToCreate ==
  SelectSeq(labelsToCreate,
            LAMBDA l : \E g \in 1..Len(githubLabels) :
                         githubLabels[g].name = l.github.name)

\* A gate that leaves the unresolved members out of its condition.
HasReconciliationErrorsButMembers ==
  \/ Len(missingLabels) > 0
  \/ Len(invalidLists) > 0
  \/ Len(missingMilestones) > 0
  \/ Len(missingStatusFields) > 0
  \/ usedStatusWithoutProject

\* The condition of the validation gate.
HasReconciliationErrors ==
  \/ Len(missingLabels) > 0
  \/ Len(invalidMembers) > 0
  \/ Len(invalidLists) > 0
  \/ Len(missingMilestones) > 0
  \/ Len(missingStatusFields) > 0
  \/ usedStatusWithoutProject

\* `array.filter(...)` written as a statement: filter returns a new array,
\* which is dropped, and the array itself is left as it was.
FilterStatement(array, filtered) == array

\* --------------------------------------------------------- card rendering
\* The login a Trello member id maps to, as a sequence: << >> is null.
mapMemberId(trelloMemberId, members, valid) ==
  LET t == FindIdx(members, LAMBDA mem : mem.id = trelloMemberId)
  IN IF t = 0
     THEN << >>
     ELSE LET trelloMember == members[t]
              m == FindIdx(valid,
                     LAMBDA mem : mem.trelloName \in
                       {trelloMember.id, trelloMember.username, trelloMember.fullName})
          IN IF m = 0 \/ ~valid[m].github.present
             THEN << >>
             ELSE << valid[m].github.login >>

\* A mapping that keeps the Trello id of a member it cannot resolve.
RECURSIVE mapMemberIdsKeepUnmapped(_, _, _)
mapMemberIdsKeepUnmapped(trelloMemberIds, members, valid) ==
  IF trelloMemberIds = << >>
  THEN << >>
  ELSE (IF mapMemberId(Head(trelloMemberIds), members, valid) = << >>
        THEN << Head(trelloMemberIds) >>
        ELSE mapMemberId(Head(trelloMemberIds), members, valid))
         \o mapMemberIdsKeepUnmapped(Tail(trelloMemberIds), members, valid)

\* `trelloMemberIds.map(mapMemberId).filter((m) => m !== null)`
RECURSIVE mapMemberIds(_, _, _)
mapMemberIds(trelloMemberIds, members, valid) ==
  IF trelloMemberIds = << >>
  THEN << >>
  ELSE mapMemberId(Head(trelloMemberIds), members, valid)
         \o mapMemberIds(Tail(trelloMemberIds), members, valid)

RECURSIVE Join(_, _)
Join(strs, sep) ==
  IF strs = << >> THEN ""
  ELSE IF Len(strs) = 1 THEN strs[1]
  ELSE strs[1] \o sep \o Join(Tail(strs), sep)

RECURSIVE Flatten(_)
Flatten(seqs) == IF seqs = << >> THEN << >> ELSE Head(seqs) \o Flatten(Tail(seqs))

\* The lines of one checklist: its heading and one task line per item.
ChecklistLines(checklist) ==
  << "### " \o checklist.name >>
    \o [n \in 1..Len(checklist.checkItems) |->
          IF checklist.checkItems[n].state = "complete"
          THEN "- [x] " \o checklist.checkItems[n].name
          ELSE "- [ ] " \o checklist.checkItems[n].name]

\* The checklists a card references, those missing from the board dropped.
ChecklistsOf(card, checklists) ==
  LET found == [n \in 1..Len(card.idChecklists) |->
                  FindIdx(checklists, LAMBDA c : c.id = card.idChecklists[n])]
  IN Flatten([n \in 1..Len(found) |->
                IF found[n] = 0 THEN << >> ELSE << checklists[found[n]] >>])

\* The checklist block, as a sequence: << >> is null.
getChecklistContentForCard(card, checklists) ==
  LET cls == ChecklistsOf(card, checklists)
  IN IF Len(cls) < 1
     THEN << >>
     ELSE << Join(<< "\n## Checklists" >>
                    \o Flatten([n \in 1..Len(cls) |-> ChecklistLines(cls[n])]),
                  "\n") >>

\* A rendering that writes the description and its separator even when the
\* description is empty.
getDescriptionForCardAlwaysSeparator(card, checklists) ==
  LET checklistStr == getChecklistContentForCard(card, checklists)
      withDesc == card.desc \o "\n\n---\n\n"
      withChecklists ==
        IF checklistStr # << >> /\ checklistStr[1] # ""
        THEN withDesc \o "\n" \o checklistStr[1] \o "\n"
        ELSE withDesc
      withFooter ==
        withChecklists \o "\n---\n> Migrated from [Trello Card](" \o card.url \o ")"
  IN withFooter
       \o Join([n \in 1..Len(card.attachments) |->
                  "- [" \o card.attachments[n].name \o "]("
                    \o card.attachments[n].url \o ")"],
               "\n")

\* The issue body of a card: description, checklists, footer, attachments.
getDescriptionForCard(card, checklists) ==
  LET checklistStr == getChecklistContentForCard(card, checklists)
      withDesc == IF Len(card.desc) > 0 THEN card.desc \o "\n\n---\n\n" ELSE ""
      withChecklists ==
        IF checklistStr # << >> /\ checklistStr[1] # ""
        THEN withDesc \o "\n" \o checklistStr[1] \o "\n"
        ELSE withDesc
      withFooter ==
        withChecklists \o "\n---\n> Migrated from [Trello Card](" \o card.url \o ")"
  IN withFooter
       \o Join([n \in 1..Len(card.attachments) |->
                  "- [" \o card.attachments[n].name \o "]("
                    \o card.attachments[n].url \o ")"],
               "\n")

\* A rendering that keeps a label it cannot map under its Trello name.
getLabelsForCardKeepUnmapped(card, mapped) ==
  LET own == [n \in 1..Len(card.labels) |->
                FindIdx(mapped, LAMBDA l : l.type # "listMapped"
                                           /\ l.trello.name = card.labels[n])]
      listLabel == FindIdx(mapped, LAMBDA l : l.type = "listMapped"
                                              /\ l.trelloList.id = card.idList)
  IN [n \in 1..Len(own) |->
        IF own[n] = 0 THEN card.labels[n] ELSE mapped[own[n]].github.name]
       \o (IF listLabel = 0 THEN << >> ELSE << mapped[listLabel].github.name >>)

\* A rendering that forgets the label of the card's list.
getLabelsForCardWithoutList(card, mapped) ==
  LET own == [n \in 1..Len(card.labels) |->
                FindIdx(mapped, LAMBDA l : l.type # "listMapped"
                                           /\ l.trello.name = card.labels[n])]
  IN Flatten([n \in 1..Len(own) |->
                IF own[n] = 0 THEN << >> ELSE << mapped[own[n]].github.name >>])

\* The GitHub label names of a card: those of its own labels, then its list's.
getLabelsForCard(card, mapped) ==
  LET own == [n \in 1..Len(card.labels) |->
                FindIdx(mapped, LAMBDA l : l.type # "listMapped"
                                           /\ l.trello.name = card.labels[n])]
      listLabel == FindIdx(mapped, LAMBDA l : l.type = "listMapped"
                                              /\ l.trelloList.id = card.idList)
  IN Flatten([n \in 1..Len(own) |->
                IF own[n] = 0 THEN << >> ELSE << mapped[own[n]].github.name >>])
       \o (IF listLabel = 0 THEN << >> ELSE << mapped[listLabel].github.name >>)

\* An insertion that puts x before the elements of its own date.
RECURSIVE InsertByDateBeforeEqual(_, _)
InsertByDateBeforeEqual(sorted, x) ==
  IF sorted = << >> THEN << x >>
  ELSE IF x.date <= Head(sorted).date THEN << x >> \o sorted
  ELSE << Head(sorted) >> \o InsertByDateBeforeEqual(Tail(sorted), x)

\* Array.prototype.sort by date: stable insertion of x into a sorted sequence.
RECURSIVE InsertByDate(_, _)
InsertByDate(sorted, x) ==
  IF sorted = << >> THEN << x >>
  ELSE IF x.date < Head(sorted).date THEN << x >> \o sorted
  ELSE << Head(sorted) >> \o InsertByDate(Tail(sorted), x)

RECURSIVE SortByDate(_)
SortByDate(actions) ==
  IF actions = << >> THEN << >>
  ELSE InsertByDate(SortByDate(SubSeq(actions, 1, Len(actions) - 1)),
                    actions[Len(actions)])

\* The body of one comment: a header naming the author and the date, then
\* the text.  The backquotes around an unmapped author are written as
\* apostrophes, the bullet as a dash and the localized date as the
\* timestamp's digits.
CommentBody(action, members, valid) ==
  LET member == mapMemberId(action.memberCreator.id, members, valid)
      memberString == IF member # << >>
                      THEN "@" \o member[1]
                      ELSE "'@" \o action.memberCreator.username \o "'"
  IN "## " \o memberString \o " - " \o ToString(action.date)
       \o "\n" \o action.text

\* The comment bodies of a card, oldest first.
getCommentsForCard(card, actions, members, valid) ==
  LET commentActions ==
        SortByDate(SelectSeq(actions, LAMBDA a : a.type = "commentCard"
                                                 /\ a.idCard = card.id))
  IN [n \in 1..Len(commentActions) |->
        CommentBody(commentActions[n], members, valid)]

\* `validMilestones.get(card.id)?.number`, as a sequence: << >> is undefined.
MilestoneOfCard(card, milestones) ==
  IF card.id \in DOMAIN milestones THEN << milestones[card.id].number >> ELSE << >>

\* `validStatusFields.get(card.id)`, as a sequence: << >> is undefined.
StatusOfCard(card, statusFields) ==
  IF card.id \in DOMAIN statusFields THEN << statusFields[card.id] >> ELSE << >>

\* ------------------------------------------------------------ remote calls
Call(kind) ==
  [kind |-> kind, card |-> 0, name |-> "", color |-> << >>, title |-> "",
   body |-> "", labels |-> << >>, assignees |-> << >>, milestone |-> << >>,
   issue |-> 0, node |-> 0, item |-> 0, option |-> ""]

MutatingKinds ==
  {"createLabel", "createIssue", "createComment", "addProjectItem", "setStatus"}

CallsOfKind(cs, kind) == SelectSeq(cs, LAMBDA c : c.kind = kind)

\* `color?.trim().replace(/^#/, "")`: undefined stays undefined, the "#" goes.
StripHash(color) == IF color.given THEN << color.hex >> ELSE << >>

\* A label creation that sends the Trello name instead of the GitHub one.
CreateLabelCallTrelloName(label) ==
  [Call("createLabel") EXCEPT !.name = label.trello.name,
                              !.color = StripHash(label.github.color)]

CreateLabelCall(label) ==
  [Call("createLabel") EXCEPT !.name = label.github.name,
                              !.color = StripHash(label.github.color)]

CreateIssueCall(n, card) ==
  [Call("createIssue") EXCEPT
     !.card = n,
     !.title = card.name,
     !.body = getDescriptionForCard(card, trello.checklists),
     !.labels = getLabelsForCard(card, mappedLabels),
     !.assignees = mapMemberIds(card.idMembers, trello.members, validMembers),
     !.milestone = MilestoneOfCard(card, validMilestones)]

\* What the repository answers to an issue creation: a fresh number and node id.
IssueAnswer(cs) ==
  LET n == 100 + Len(CallsOfKind(cs, "createIssue"))
  IN [number |-> n, node_id |-> 1000 + n]

\* What the project answers to an item addition: a fresh item id.
ItemAnswer(nodeId) == 1000 + nodeId

NoProjectInfo ==
  [present |-> FALSE, projectId |-> "", projectName |-> "", statusFieldId |-> "",
   statusFieldOptions |-> << >>]

\* ------------------------------------------------------------- the endings
Exit(code, via) ==
  /\ exitCode' = code
  /\ exitVia' = via
  /\ exitAt' = pc
  /\ pc' = "exited"

\* A failure that ends the process with code zero.
FailWithZero == Exit(0, "fail")

\* fail(): p.outro() and process.exit(1)
Fail == Exit(1, "fail")
\* A cancellation that ends the process like a failure.
OnCancelAsFailure == Exit(1, "cancel")

\* onCancel(): p.cancel() and process.exit(0)
OnCancel == Exit(0, "cancel")
\* An exception nobody catches that ends the process with code zero.
ThrowWithZero == Exit(0, "throw")

\* An exception nobody catches ends the process with a non-zero code.
Throw == Exit(1, "throw")

\* --------------------------------------------------------------- the steps
\* A schema report that stops at the first document that fails.
ParseReportsFirstOnly(ok) ==
  IF ~ok.trello THEN << "exportSchema" >>
  ELSE IF ~ok.map THEN << "mapSchema" >> ELSE << >>

\* Lines 746-753: one error report per document that fails its schema.
ParseReports(ok) ==
  (IF ~ok.trello THEN << "exportSchema" >> ELSE << >>)
    \o (IF ~ok.map THEN << "mapSchema" >> ELSE << >>)

\* Lines 1042-1097: one error report per non-empty class of the tables.
GateReports ==
  (IF Len(missingLabels) > 0 THEN << "missingLabels" >> ELSE << >>)
    \o (IF Len(invalidLists) > 0 THEN << "invalidLists" >> ELSE << >>)
    \o (IF Len(missingMilestones) > 0 THEN << "missingMilestones" >> ELSE << >>)
    \o (IF Len(missingStatusFields) > 0 THEN << "missingStatusFields" >> ELSE << >>)
    \o (IF usedStatusWithoutProject THEN << "usedStatusWithoutProject" >> ELSE << >>)
    \o (IF Len(invalidMembers) > 0 THEN << "invalidMembers" >> ELSE << >>)

\* Lines 743-764: the schema gate, then the closed-card filter.
ParseDocuments ==
  /\ pc = "parse"
  /\ log' = log \o ParseReports(parseOk)
  /\ IF ~parseOk.trello \/ ~parseOk.map
     THEN Fail /\ UNCHANGED trello
     ELSE /\ trello' = [trello EXCEPT !.cards =
                          IF ~opts.keepClosed
                          THEN FilterStatement(@, SelectSeq(@, LAMBDA card : ~card.closed))
                          ELSE @]
          /\ pc' = "fetch"
          /\ UNCHANGED ending
  /\ UNCHANGED << map, opts, parseOk, remote, fetched, tables, asked, loop, calls >>

\* Lines 776-778: the labels of the repository.
FetchRepoState ==
  /\ pc = "fetch"
  /\ calls' = Append(calls, Call("getLabels"))
  /\ \E ok \in BOOLEAN :
       IF ok
       THEN /\ githubLabels' = remote.labels
            /\ pc' = "fetchMilestones"
            /\ UNCHANGED ending
       ELSE Throw /\ UNCHANGED githubLabels
  /\ UNCHANGED << log, inputs, githubMilestones, users, projectInfo, tables, asked,
                  loop >>

\* Lines 779-784: the milestones of the repository.
FetchMilestones ==
  /\ pc = "fetchMilestones"
  /\ calls' = Append(calls, Call("getMilestones"))
  /\ \E ok \in BOOLEAN :
       IF ok
       THEN /\ githubMilestones' = remote.milestones
            /\ pc' = IF Len(map.users) = 0 THEN "project" ELSE "users"
            /\ k' = 1
            /\ UNCHANGED ending
       ELSE Throw /\ UNCHANGED << githubMilestones, k >>
  /\ UNCHANGED << log, inputs, githubLabels, users, projectInfo, tables, asked,
                  i, issue, itemId >>

\* Lines 787-806: one iteration of the user lookups.
LookupUser ==
  /\ pc = "users"
  /\ k <= Len(map.users)
  /\ LET user == map.users[k]
     IN \E outcome \in {"found", "notFound", "error"} :
          /\ calls' = Append(calls, [Call("getUser") EXCEPT !.name = user.github])
          /\ IF outcome = "error"
             THEN Throw /\ UNCHANGED << users, k >>
             ELSE /\ users' = Append(users,
                      IF outcome = "found"
                      THEN [trelloName |-> user.trello, githubName |-> "",
                            github |-> [present |-> TRUE, login |-> user.github]]
                      ELSE [trelloName |-> user.trello, githubName |-> user.github,
                            github |-> [present |-> FALSE, login |-> ""]])
                  /\ k' = k + 1
                  /\ pc' = IF k = Len(map.users) THEN "project" ELSE "users"
                  /\ UNCHANGED ending
  /\ UNCHANGED << log, inputs, githubLabels, githubMilestones, projectInfo, tables,
                  asked, i, issue, itemId >>

\* Lines 808-868: getProjectInfo().
GetProjectInfo ==
  /\ pc = "project"
  /\ IF map.project = 0
     THEN /\ projectInfo' = NoProjectInfo
          /\ pc' = "reconcile"
          /\ UNCHANGED << calls, ending >>
     ELSE /\ calls' = Append(calls, Call("getProject"))
          /\ \E ok \in BOOLEAN :
               IF ok
               THEN /\ projectInfo' =
                         [present |-> TRUE, projectId |-> remote.projectId,
                          projectName |-> remote.projectName,
                          statusFieldId |-> remote.statusFieldId,
                          statusFieldOptions |-> remote.statusFieldOptions]
                    /\ pc' = "reconcile"
                    /\ UNCHANGED ending
               ELSE Throw /\ UNCHANGED projectInfo
  /\ UNCHANGED << log, inputs, githubLabels, githubMilestones, users, tables, asked,
                  loop >>

\* Lines 870-996: the three reconciliation loops and the skipped-list filter.
Reconcile ==
  /\ pc = "reconcile"
  /\ LET t == ReconcileAll(trello, map, githubLabels, githubMilestones, projectInfo)
     IN /\ labels' = t.labels
        /\ invalidLists' = t.invalidLists
        /\ validMilestones' = t.validMilestones
        /\ missingMilestones' = t.missingMilestones
        /\ usedStatusWithoutProject' = t.usedStatusWithoutProject
        /\ validStatusFields' = t.validStatusFields
        /\ missingStatusFields' = t.missingStatusFields
        /\ skippedLists' = t.skippedLists
        /\ trello' = [trello EXCEPT !.cards =
                        FilterStatement(@,
                          SelectSeq(@,
                            LAMBDA card : ~\E n \in 1..Len(t.skippedLists) :
                                             t.skippedLists[n].id = card.idList))]
  /\ pc' = "gate"
  /\ UNCHANGED << log, map, opts, parseOk, remote, fetched, asked, loop, calls, ending >>

\* Lines 998-1108: the reports and the validation gate.
ValidationGate ==
  /\ pc = "gate"
  /\ log' = log \o GateReports
  /\ IF HasReconciliationErrors
     THEN Fail
     ELSE pc' = "confirmSkipped" /\ UNCHANGED ending
  /\ UNCHANGED << inputs, fetched, tables, asked, loop, calls >>

Answers == {"yes", "no", "cancel"}

\* Lines 1110-1115: the confirmation asked when labels are skipped.
ConfirmSkipped ==
  /\ pc = "confirmSkipped"
  /\ IF Len(skippedLabels) > 0
     THEN \E conf \in Answers :
            /\ asked' = Append(asked, [prompt |-> "skipped", answer |-> conf])
            /\ IF conf # "yes"
               THEN OnCancel
               ELSE pc' = "confirmExisting" /\ UNCHANGED ending
     ELSE pc' = "confirmExisting" /\ UNCHANGED << asked, ending >>
  /\ UNCHANGED << log, inputs, fetched, tables, loop, calls >>

\* Where the run goes once the labels are created: the first card, if any.
AfterLabels == IF Len(trello.cards) > 0 THEN "issue" ELSE "outro"

\* Lines 1117-1133: the confirmation asked when labels to create exist already.
ConfirmExisting ==
  /\ pc = "confirmExisting"
  /\ LET onward == /\ pc' = IF Len(labelsToCreate) > 0 THEN "createLabels"
                            ELSE AfterLabels
                   /\ k' = 1
                   /\ i' = 1
                   /\ UNCHANGED ending
     IN IF Len(existingLabelsToCreate) > 0
        THEN \E conf \in Answers :
               /\ asked' = Append(asked, [prompt |-> "existing", answer |-> conf])
               /\ IF conf # "yes"
                  THEN OnCancel /\ UNCHANGED << k, i >>
                  ELSE onward
        ELSE onward /\ UNCHANGED asked
  /\ UNCHANGED << log, inputs, fetched, tables, issue, itemId, calls >>

\* Lines 1135-1147: one iteration of the label creation loop.
CreateLabel ==
  /\ pc = "createLabels"
  /\ k <= Len(labelsToCreate)
  /\ calls' = Append(calls, CreateLabelCall(labelsToCreate[k]))
  /\ \E ok \in BOOLEAN :
       IF ok
       THEN /\ k' = k + 1
            /\ pc' = IF k = Len(labelsToCreate) THEN AfterLabels ELSE "createLabels"
            /\ UNCHANGED ending
       ELSE Throw /\ UNCHANGED k
  /\ UNCHANGED << log, inputs, fetched, tables, asked, i, issue, itemId >>

\* The end of one iteration of the issue loop: the next card, or the outro.
GoAfterCard ==
  IF i < Len(trello.cards)
  THEN pc' = "issue" /\ i' = i + 1
  ELSE pc' = "outro" /\ i' = i

\* A loop body that leaves the project placement out.
GoAfterCommentsWithoutProject == GoAfterCard

\* After the comments of a card: its project placement, if a project is set.
GoAfterComments ==
  IF projectInfo.present
  THEN pc' = "addItem" /\ i' = i
  ELSE GoAfterCard

CommentsOfCard(card) ==
  getCommentsForCard(card, trello.actions, trello.members, validMembers)

\* Lines 1294-1302: the issue of card i.
CreateIssue ==
  /\ pc = "issue"
  /\ i <= Len(trello.cards)
  /\ LET card == trello.cards[i]
     IN /\ calls' = Append(calls, CreateIssueCall(i, card))
        /\ \E ok \in BOOLEAN :
             IF ok
             THEN /\ issue' = IssueAnswer(calls')
                  /\ k' = 1
                  /\ IF Len(CommentsOfCard(card)) > 0
                     THEN pc' = "comment" /\ i' = i
                     ELSE GoAfterComments
                  /\ UNCHANGED ending
             ELSE Throw /\ UNCHANGED << issue, k, i >>
  /\ UNCHANGED << log, inputs, fetched, tables, asked, itemId >>

\* Lines 1304-1314: one comment of card i.
CreateComment ==
  /\ pc = "comment"
  /\ LET comments == CommentsOfCard(trello.cards[i])
     IN /\ k <= Len(comments)
        /\ calls' = Append(calls, [Call("createComment") EXCEPT
                                     !.card = i, !.issue = issue.number,
                                     !.body = comments[k]])
        /\ \E ok \in BOOLEAN :
             IF ok
             THEN /\ k' = k + 1
                  /\ IF k = Len(comments)
                     THEN GoAfterComments
                     ELSE pc' = "comment" /\ i' = i
                  /\ UNCHANGED ending
             ELSE Throw /\ UNCHANGED << k, i >>
  /\ UNCHANGED << log, inputs, fetched, tables, asked, issue, itemId >>

\* Lines 1316-1319 and 1255-1271: addIssueToProject() for card i.
AddProjectItem ==
  /\ pc = "addItem"
  /\ calls' = Append(calls, [Call("addProjectItem") EXCEPT
                               !.card = i, !.node = issue.node_id,
                               !.name = projectInfo.projectId])
  /\ \E ok \in BOOLEAN :
       IF ok
       THEN /\ itemId' = ItemAnswer(issue.node_id)
            /\ IF StatusOfCard(trello.cards[i], validStatusFields) # << >>
               THEN pc' = "setStatus" /\ i' = i
               ELSE GoAfterCard
            /\ UNCHANGED ending
       ELSE Throw /\ UNCHANGED << itemId, i >>
  /\ UNCHANGED << log, inputs, fetched, tables, asked, k, issue >>

\* Lines 1319-1321 and 1273-1289: setIssueStatus() for card i.
SetStatus ==
  /\ pc = "setStatus"
  /\ calls' = Append(calls, [Call("setStatus") EXCEPT
                               !.card = i, !.item = itemId,
                               !.name = projectInfo.statusFieldId,
                               !.option =
                                 StatusOfCard(trello.cards[i], validStatusFields)[1].id])
  /\ \E ok \in BOOLEAN :
       IF ok
       THEN GoAfterCard /\ UNCHANGED ending
       ELSE Throw /\ UNCHANGED i
  /\ UNCHANGED << log, inputs, fetched, tables, asked, k, issue, itemId >>

\* Lines 1329-1330: the end of the script.
Outro ==
  /\ pc = "outro"
  /\ pc' = "done"
  /\ exitCode' = 0
  /\ exitVia' = "outro"
  /\ exitAt' = pc
  /\ UNCHANGED << log, inputs, fetched, tables, asked, loop, calls >>

\* ------------------------------------------------------------- the inputs
BaseLabels == << TLabel("RFC", "blue"), TLabel("bug", "red") >>

BaseTrello(cards) ==
  [name |-> "Board", lists |-> TrelloLists, members |-> TrelloMembers,
   labels |-> BaseLabels, cards |-> cards, checklists |-> TrelloChecklists,
   actions |-> TrelloActions]

BaseMap ==
  [project |-> 5,
   labels |-> << [trello |-> "RFC", github |-> Str("Request For Comments"),
                  create |-> TRUE, color |-> Color(TRUE, "0000ff")],
                 [trello |-> "bug", github |-> Num(1), create |-> FALSE,
                  color |-> NoColor] >>,
   users |-> << [trello |-> "m1", github |-> "gh-by-id"] >>,
   lists |-> << ListMap("L1", Absent, Num(1), Str("In Progress")) >>,
   skip |-> [lists |-> << >>]]

BaseOpts == [keepClosed |-> FALSE, dryRun |-> FALSE]
BaseParse == [trello |-> TRUE, map |-> TRUE]
BaseRemote ==
  Remote(<< GLabel(1, "bug", "d73a4a"), GLabel(3, "feature", "a2eeef") >>)

Scenario(t, m, o, ok, r) ==
  [trello |-> t, map |-> m, opts |-> o, parseOk |-> ok, remote |-> r]

\* The runs explored: every board of cards, with one part of the input at a
\* time ranging over all its values and the other parts at their base value.
LabelFamily ==
  { Scenario([BaseTrello(cards) EXCEPT !.labels = tl],
             [BaseMap EXCEPT !.labels = ml], BaseOpts, BaseParse, Remote(gl)) :
      cards \in CardBoards, tl \in TrelloLabelBoards,
      ml \in SeqUpTo(LabelMapEntries, MaxLabelMaps), gl \in GithubLabelSets }

ListFamily ==
  { Scenario(BaseTrello(cards), [BaseMap EXCEPT !.lists = ls, !.project = pr],
             BaseOpts, BaseParse, BaseRemote) :
      cards \in CardBoards, ls \in SeqUpTo(ListMapEntries, MaxListMaps),
      pr \in ProjectOptions }

SkipFamily ==
  { Scenario(BaseTrello(cards), [BaseMap EXCEPT !.skip.lists = sk],
             BaseOpts, BaseParse, BaseRemote) :
      cards \in CardBoards, sk \in SkipOptions }

UserFamily ==
  { Scenario(BaseTrello(cards), [BaseMap EXCEPT !.users = us],
             BaseOpts, BaseParse, BaseRemote) :
      cards \in CardBoards, us \in SeqUpTo(UserEntries, MaxUsers) }

ActionFamily ==
  { Scenario([BaseTrello(cards) EXCEPT !.actions = as], BaseMap,
             BaseOpts, BaseParse, BaseRemote) :
      cards \in CardBoards, as \in ActionBoards }

OptionFamily ==
  { Scenario(BaseTrello(cards), BaseMap, o, ok, BaseRemote) :
      cards \in CardBoards,
      o \in [keepClosed : BOOLEAN, dryRun : BOOLEAN],
      ok \in [trello : BOOLEAN, map : BOOLEAN] }

\* The run starts on one of the family's inputs.
StartsIn(family) ==
  \E sc \in family :
    /\ trello = sc.trello
    /\ map = sc.map
    /\ opts = sc.opts
    /\ parseOk = sc.parseOk
    /\ remote = sc.remote

Init ==
  /\ \/ StartsIn(LabelFamily)
     \/ StartsIn(ListFamily)
     \/ StartsIn(SkipFamily)
     \/ StartsIn(UserFamily)
     \/ StartsIn(ActionFamily)
     \/ StartsIn(OptionFamily)
  /\ pc = "parse"
  /\ githubLabels = << >>
  /\ githubMilestones = << >>
  /\ users = << >>
  /\ projectInfo = NoProjectInfo
  /\ labels = << >>
  /\ invalidLists = << >>
  /\ validMilestones = << >>
  /\ missingMilestones = << >>
  /\ usedStatusWithoutProject = FALSE
  /\ validStatusFields = << >>
  /\ missingStatusFields = << >>
  /\ skippedLists = << >>
  /\ asked = << >>
  /\ k = 1
  /\ i = 1
  /\ issue = [number |-> 0, node_id |-> 0]
  /\ itemId = 0
  /\ calls = << >>
  /\ exitCode = -1
  /\ exitVia = ""
  /\ exitAt = ""
  /\ log = << >>

Next ==
  \/ ParseDocuments
  \/ FetchRepoState
  \/ FetchMilestones
  \/ LookupUser
  \/ GetProjectInfo
  \/ Reconcile
  \/ ValidationGate
  \/ ConfirmSkipped
  \/ ConfirmExisting
  \/ CreateLabel
  \/ CreateIssue
  \/ CreateComment
  \/ AddProjectItem
  \/ SetStatus
  \/ Outro

Spec == Init /\ [][Next]_vars

\* ================================================================ claims
PreReconcile ==
  {"parse", "fetch", "fetchMilestones", "users", "project", "reconcile"}

\* The reconciliation loops have run.
Reconciled == IF pc = "exited" THEN exitAt \notin PreReconcile
              ELSE pc \notin PreReconcile

NoMutatingCall == \A n \in 1..Len(calls) : calls[n].kind \notin MutatingKinds

Positions(kind) == {n \in 1..Len(calls) : calls[n].kind = kind}

\* The card an issue, comment or project call is about.
CardOf(c) == trello.cards[c.card]

\* The first `labels` entry of the mapping whose `trello` is the name, 0 if none.
FirstEntry(trelloName) == FindIdx(map.labels, LAMBDA e : e.trello = trelloName)

\* The Trello lists a `lists[]` or `skip.lists[]` key names, by id or by name.
ListsNamed(key) ==
  {n \in 1..Len(trello.lists) : trello.lists[n].id = key \/ trello.lists[n].name = key}

\* Some resolved `lists[]` entry has a status while no project is declared.
StatusWithoutProject ==
  /\ map.project = 0
  /\ \E n \in 1..Len(map.lists) :
       ListsNamed(map.lists[n].list) # {} /\ Truthy(map.lists[n].status)

\* A reconciliation error exists in this run's input.
ReconciliationError ==
  /\ Reconciled
  /\ \/ Len(missingLabels) > 0
     \/ Len(invalidLists) > 0
     \/ Len(missingMilestones) > 0
     \/ Len(missingStatusFields) > 0
     \/ Len(invalidMembers) > 0
     \/ StatusWithoutProject

\* C1: whenever a reconciliation error exists (a missing or missingList
\* label, an invalid list reference, a missing milestone, a missing status
\* field, a status without a project, an unresolved member), the run never
\* completes, ends with a non-zero exit and never issues a mutating call.
C1_ErrorsAbortBeforeMutation ==
  ReconciliationError =>
    /\ NoMutatingCall
    /\ pc # "done"
    /\ pc = "exited" => exitCode # 0

\* The card's list is named, by id or by name, in `skip.lists`.
InSkippedList(card) ==
  \E n \in 1..Len(map.skip.lists) :
    \E l \in ListsNamed(map.skip.lists[n]) : trello.lists[l].id = card.idList

\* C2: no issue-create call is issued for a card of a skipped list, and in a
\* completed run every card of a list that is not skipped has its issue-create
\* call.
C2_SkippedListsNotTransferred ==
  /\ \A n \in Positions("createIssue") : ~InSkippedList(CardOf(calls[n]))
  /\ pc = "done" =>
       \A c \in 1..Len(trello.cards) :
         ~InSkippedList(trello.cards[c]) =>
           \E n \in Positions("createIssue") : calls[n].card = c

\* C3: in a completed run with a project, every card whose list was mapped to
\* a live status option has exactly one addProjectItem call, followed by
\* exactly one setProjectItemStatus call carrying that option's id.
C3_StatusSetForMappedList ==
  (pc = "done" /\ projectInfo.present) =>
    \A c \in 1..Len(trello.cards) :
      trello.cards[c].idList \in DOMAIN validStatusFields =>
        LET adds == {n \in Positions("addProjectItem") : calls[n].card = c}
            sets == {n \in Positions("setStatus") : calls[n].card = c}
        IN /\ Cardinality(adds) = 1
           /\ Cardinality(sets) = 1
           /\ \A a \in adds : \A t \in sets :
                /\ a < t
                /\ calls[t].option = validStatusFields[trello.cards[c].idList].id

\* C4: the milestone of every issue-create payload is the number of the
\* milestone mapped to the card's list (key: card.idList), and is absent
\* exactly when that list has no milestone mapping.
C4_MilestoneOfCardList ==
  \A n \in Positions("createIssue") :
    calls[n].milestone =
      IF CardOf(calls[n]).idList \in DOMAIN validMilestones
      THEN << validMilestones[CardOf(calls[n]).idList].number >>
      ELSE << >>

\* C5: with no project declared and a status on a resolved `lists[]` entry,
\* usedStatusWithoutProject is recorded and the run aborts at the validation
\* gate with a non-zero exit before any mutating call.
C5_StatusWithoutProjectAborts ==
  (Reconciled /\ StatusWithoutProject) =>
    /\ usedStatusWithoutProject
    /\ pc \in {"gate", "exited"}
    /\ pc = "exited" => (exitAt = "gate" /\ exitCode # 0)
    /\ NoMutatingCall

\* ------------------------------------------------------------------- C6
Range(seq) == {seq[n] : n \in 1..Len(seq)}

Least(S) == CHOOSE n \in S : \A o \in S : n <= o

\* The login the stated precedence gives: that of the entry naming the
\* member's id, else of the one naming its username, else of the one naming
\* its full name.
LoginByPrecedence(trelloMemberId, members, valid) ==
  LET t == FindIdx(members, LAMBDA mem : mem.id = trelloMemberId)
  IN IF t = 0
     THEN << >>
     ELSE LET trelloMember == members[t]
              byId == FindIdx(valid, LAMBDA mem : mem.trelloName = trelloMember.id)
              byUsername ==
                FindIdx(valid, LAMBDA mem : mem.trelloName = trelloMember.username)
              byFullName ==
                FindIdx(valid, LAMBDA mem : mem.trelloName = trelloMember.fullName)
              m == IF byId # 0 THEN byId
                   ELSE IF byUsername # 0 THEN byUsername ELSE byFullName
          IN IF m = 0 \/ ~valid[m].github.present
             THEN << >>
             ELSE << valid[m].github.login >>

\* C6: a member resolves to the entry naming its id before the one
\* naming its username, and to that one before the one naming its full name,
\* whatever the order of the entries in the mapping.
C6_IdBeatsUsernameBeatsFullName ==
  \A t \in 1..Len(trello.members) :
    mapMemberId(trello.members[t].id, trello.members, validMembers)
      = LoginByPrecedence(trello.members[t].id, trello.members, validMembers)

\* ------------------------------------------------------------------- C7
\* The board has a label of that name.
OnBoard(trelloName) ==
  \E n \in 1..Len(trello.labels) : trello.labels[n].name = trelloName

\* The name's first mapping entry exists and has create = true.
FirstEntryCreates(trelloName) ==
  FirstEntry(trelloName) # 0 /\ map.labels[FirstEntry(trelloName)].create

\* The board labels whose first mapping entry creates the GitHub name.
BoardLabelsCreating(githubName) ==
  {n \in 1..Len(trello.labels) :
     /\ FirstEntryCreates(trello.labels[n].name)
     /\ map.labels[FirstEntry(trello.labels[n].name)].github.str = githubName}

CreateCallsNamed(githubName) ==
  {p \in Positions("createLabel") : calls[p].name = githubName}

\* C7 as stated: in a completed run every GitHub name targeted by a
\* create:true entry that matches a board label has exactly one create-label
\* call, which precedes every issue-create call, and every card tagged with
\* the Trello label carries the GitHub name.
C7_OneCreateCallPerName ==
  pc = "done" =>
    \A n \in 1..Len(map.labels) :
      (map.labels[n].create /\ OnBoard(map.labels[n].trello)) =>
        /\ Cardinality(CreateCallsNamed(map.labels[n].github.str)) = 1
        /\ \A p \in CreateCallsNamed(map.labels[n].github.str) :
             \A q \in Positions("createIssue") : p < q
        /\ \A q \in Positions("createIssue") :
             map.labels[n].trello \in Range(CardOf(calls[q]).labels) =>
               map.labels[n].github.str \in Range(calls[q].labels)

\* C7 as amended: in a completed run every GitHub name has one create-label
\* call per board label whose first matching entry is a create:true entry of
\* that name (one call when one board label is so classified, none when the
\* create:true entry is not the first match); create-label calls precede every
\* issue-create call; and every card tagged with such a Trello label carries
\* the GitHub name.
C7_OneCreateCallPerClassifiedLabel ==
  /\ pc = "done" =>
       \A n \in 1..Len(map.labels) :
         Cardinality(CreateCallsNamed(map.labels[n].github.str))
           = Cardinality(BoardLabelsCreating(map.labels[n].github.str))
  /\ \A p \in Positions("createLabel") : \A q \in Positions("createIssue") : p < q
  /\ \A q \in Positions("createIssue") :
       \A tn \in Range(CardOf(calls[q]).labels) :
         (OnBoard(tn) /\ FirstEntryCreates(tn)) =>
           map.labels[FirstEntry(tn)].github.str \in Range(calls[q].labels)

\* A completed run in which a label was created exactly once and an issue of a
\* card tagged with its Trello label carries it.
C7_Witness ==
  /\ pc = "done"
  /\ \E p \in Positions("createLabel") :
       /\ Cardinality(CreateCallsNamed(calls[p].name)) = 1
       /\ \E q \in Positions("createIssue") :
            /\ p < q
            /\ calls[p].name \in Range(calls[q].labels)
            /\ \E tn \in Range(CardOf(calls[q]).labels) :
                 /\ FirstEntryCreates(tn)
                 /\ map.labels[FirstEntry(tn)].github.str = calls[p].name

\* ------------------------------------------------------------------- C8
HasEntry(trelloName) == FirstEntry(trelloName) # 0

ListLabelsOf(card) ==
  {n \in 1..Len(labels) :
     labels[n].type = "listMapped" /\ labels[n].trelloList.id = card.idList}

\* C8: a Trello label with no mapping entry of its name is classified
\* skipped, and a card's skipped labels add nothing to its issue: the payload
\* holds one name per label of the card that has a mapping entry, plus the
\* list's label if the card's list has one.
C8_SkippedLabelsNotTransferred ==
  /\ Reconciled =>
       \A n \in 1..Len(trello.labels) :
         ~HasEntry(trello.labels[n].name) =>
           (labels[n].type = "skipped" /\ labels[n].trello = trello.labels[n])
  /\ \A q \in Positions("createIssue") :
       Len(calls[q].labels)
         = Len(SelectSeq(CardOf(calls[q]).labels, HasEntry))
             + (IF ListLabelsOf(CardOf(calls[q])) = {} THEN 0 ELSE 1)

\* An issue was created for a card that carries a label classified skipped.
C8_Witness ==
  \E q \in Positions("createIssue") :
    \E n \in 1..Len(labels) :
      /\ labels[n].type = "skipped"
      /\ labels[n].trello.name \in Range(CardOf(calls[q]).labels)
      /\ Len(calls[q].labels) < Len(CardOf(calls[q]).labels) + 1

\* ------------------------------------------------------------------- C9
\* C9: a Trello label whose first matching entry has create = true is
\* classified toCreate with the entry's GitHub name and color, whatever the
\* repository's labels are.
C9_CreateEntryGivesToCreate ==
  Reconciled =>
    \A n \in 1..Len(trello.labels) :
      FirstEntryCreates(trello.labels[n].name) =>
        LET e == map.labels[FirstEntry(trello.labels[n].name)]
        IN /\ labels[n].type = "toCreate"
           /\ labels[n].trello = trello.labels[n]
           /\ labels[n].github.name = e.github.str
           /\ labels[n].github.color = e.color

\* A label is classified toCreate while the repository holds one of its name.
C9_Witness ==
  /\ Reconciled
  /\ \E n \in 1..Len(labels) :
       /\ labels[n].type = "toCreate"
       /\ \E g \in 1..Len(githubLabels) : githubLabels[g].name = labels[n].github.name

\* ------------------------------------------------------------------ C10
\* The repository's labels an entry's `github` value names, by id or by name.
Hits(key) ==
  {g \in 1..Len(githubLabels) :
     \/ key.kind = "int" /\ githubLabels[g].id = key.num
     \/ key.kind = "str" /\ githubLabels[g].name = key.str}

\* C10: a Trello label whose first matching entry has create = false is
\* classified mapped, carrying a label its `github` value names, iff the
\* repository holds such a label; otherwise it is classified missing, carrying
\* the `github` value, and the run ends at the validation gate with a non-zero
\* exit and without a mutating call.
C10_FetchEntryMappedOrMissing ==
  Reconciled =>
    \A n \in 1..Len(trello.labels) :
      (HasEntry(trello.labels[n].name) /\ ~FirstEntryCreates(trello.labels[n].name)) =>
        LET key == map.labels[FirstEntry(trello.labels[n].name)].github
        IN IF Hits(key) # {}
           THEN /\ labels[n].type = "mapped"
                /\ labels[n].trello = trello.labels[n]
                /\ \E g \in Hits(key) : labels[n].github = githubLabels[g]
           ELSE /\ labels[n].type = "missing"
                /\ labels[n].trello = trello.labels[n]
                /\ labels[n].githubLookup = key
                /\ pc \in {"gate", "exited"}
                /\ pc = "exited" => (exitAt = "gate" /\ exitCode # 0)
                /\ NoMutatingCall

\* A run ended at the gate with one label mapped and another missing.
C10_Witness ==
  /\ pc = "exited"
  /\ exitAt = "gate"
  /\ \E n, m \in 1..Len(labels) :
       /\ labels[n].type = "missing"
       /\ labels[m].type = "mapped"
       /\ ~FirstEntryCreates(labels[n].trello.name)
       /\ ~FirstEntryCreates(labels[m].trello.name)
       /\ exitCode = 1
       /\ NoMutatingCall

\* ------------------------------------------------------------------ C11
\* The actions of the export that are comments of the card.
CommentIdx(card) ==
  {n \in 1..Len(trello.actions) :
     trello.actions[n].type = "commentCard" /\ trello.actions[n].idCard = card.id}

\* Action a comes before action b: it is older, or as old and earlier in the
\* export.
Before(a, b) ==
  \/ trello.actions[a].date < trello.actions[b].date
  \/ trello.actions[a].date = trello.actions[b].date /\ a < b

\* The card's comments, oldest first, equal timestamps in export order.
CommentsInOrder(card) ==
  [r \in 1..Cardinality(CommentIdx(card)) |->
     trello.actions[CHOOSE n \in CommentIdx(card) :
                      Cardinality({m \in CommentIdx(card) : Before(m, n)}) = r - 1]]

CommentCallsOf(c) ==
  SelectSeq(calls, LAMBDA call : call.kind = "createComment" /\ call.card = c)

\* C11: getCommentsForCard returns exactly the comments of the card, by
\* ascending timestamp with equal timestamps in the order of the export, and
\* the card's comment-create calls are issued in that order: at any moment
\* they are the first comments of that sequence, and all of them once the run
\* is complete.
C11_CommentsOldestFirst ==
  \A c \in 1..Len(trello.cards) :
    LET card == trello.cards[c]
        expected == [r \in 1..Len(CommentsInOrder(card)) |->
                       CommentBody(CommentsInOrder(card)[r], trello.members,
                                   validMembers)]
        issued == CommentCallsOf(c)
    IN /\ getCommentsForCard(card, trello.actions, trello.members, validMembers)
            = expected
       /\ Len(issued) <= Len(expected)
       /\ \A r \in 1..Len(issued) : issued[r].body = expected[r]
       /\ pc = "done" => Len(issued) = Len(expected)

\* A completed run that issued three comments of one card whose export order
\* is newest first and holds two comments of one timestamp.
C11_Witness ==
  /\ pc = "done"
  /\ \E c \in 1..Len(trello.cards) :
       /\ Len(CommentCallsOf(c)) = 3
       /\ \E a, b \in CommentIdx(trello.cards[c]) :
            a < b /\ trello.actions[a].date > trello.actions[b].date
       /\ \E a, b \in CommentIdx(trello.cards[c]) :
            a # b /\ trello.actions[a].date = trello.actions[b].date

\* ------------------------------------------------------------------ C12
\* The card has no description, no checklist on the board and no attachment.
BareCard(card) ==
  /\ card.desc = ""
  /\ \A n \in 1..Len(card.idChecklists) :
       \A c \in 1..Len(trello.checklists) :
         trello.checklists[c].id # card.idChecklists[n]
  /\ card.attachments = << >>

\* The migration footer: the rule line and the line linking the Trello card.
Footer(card) == "\n---\n> Migrated from [Trello Card](" \o card.url \o ")"

\* C12: the issue body of a card with an empty description, no checklists and
\* no attachments is the migration footer and nothing else, as rendered and
\* as sent in the card's issue-create call.
C12_BareCardBodyIsFooter ==
  /\ \A c \in 1..Len(trello.cards) :
       BareCard(trello.cards[c]) =>
         getDescriptionForCard(trello.cards[c], trello.checklists)
           = Footer(trello.cards[c])
  /\ \A q \in Positions("createIssue") :
       BareCard(CardOf(calls[q])) => calls[q].body = Footer(CardOf(calls[q]))

\* An issue was created for a card with no description, checklist or
\* attachment, and its body is the footer.
C12_Witness ==
  \E q \in Positions("createIssue") :
    /\ BareCard(CardOf(calls[q]))
    /\ calls[q].body = Footer(CardOf(calls[q]))

\* ------------------------------------------------------------------ C13
\* The `lists[]` entries whose list is on the board.
ResolvedEntries ==
  {n \in 1..Len(map.lists) : ListsNamed(map.lists[n].list) # {}}

LabelUnresolvable(e) ==
  Truthy(e.label) /\ FindGithubLabel(githubLabels, e.label) = 0

MilestoneUnresolvable(e) ==
  Truthy(e.milestone) /\ FindMilestone(githubMilestones, e.milestone) = 0

StatusUnresolvable(e) ==
  /\ projectInfo.present
  /\ Truthy(e.status)
  /\ FindStatusOption(projectInfo.statusFieldOptions, e.status) = 0

\* C13: once the tables are built, every resolved `lists[]` entry has each of
\* its references reported on its own: an unresolvable label as a missingList
\* record, an unresolvable milestone in missingMilestones, an unresolvable
\* status in missingStatusFields, whatever the entry's other references are.
C13_AllErrorsOfAnEntryReported ==
  Reconciled =>
    \A n \in ResolvedEntries :
      LET e == map.lists[n]
      IN /\ LabelUnresolvable(e) =>
              \E l \in 1..Len(labels) :
                labels[l].type = "missingList" /\ labels[l].githubLookup = e.label
         /\ MilestoneUnresolvable(e) => e.milestone \in Range(missingMilestones)
         /\ StatusUnresolvable(e) => e.status \in Range(missingStatusFields)

\* ------------------------------------------------------------------ C14
\* Where the run is, or was when the process ended.
Position == IF pc = "exited" THEN exitAt ELSE pc

ExecutingPositions ==
  {"createLabels", "issue", "comment", "addItem", "setStatus", "outro"}

\* The label creations and the transfers have begun (or are over).
Executing == Position \in ExecutingPositions \cup {"done"}

Asked(prompt) == {n \in 1..Len(asked) : asked[n].prompt = prompt}

SomeLabelSkipped == \E n \in 1..Len(labels) : labels[n].type = "skipped"

SomeNameCollides ==
  \E n \in 1..Len(labels) :
    /\ labels[n].type = "toCreate"
    /\ \E g \in 1..Len(githubLabels) : githubLabels[g].name = labels[n].github.name

\* C14: the first confirmation is asked iff some label is classified skipped,
\* the second iff some toCreate label bears the name of an existing GitHub
\* label; each is asked at most once, the first before the second; and the
\* run is executing only if every confirmation asked was answered yes.
C14_ConfirmationsBeforeExecuting ==
  /\ Cardinality(Asked("skipped")) <= 1
  /\ Cardinality(Asked("existing")) <= 1
  /\ \A a \in Asked("skipped") : \A b \in Asked("existing") : a < b
  /\ Asked("skipped") # {} => SomeLabelSkipped
  /\ Asked("existing") # {} => SomeNameCollides
  /\ (Position \in {"confirmExisting"} \cup ExecutingPositions \cup {"done"}) =>
       (SomeLabelSkipped => Asked("skipped") # {})
  /\ Executing =>
       /\ SomeNameCollides => Asked("existing") # {}
       /\ \A n \in 1..Len(asked) : asked[n].answer = "yes"

\* A completed run in which both confirmations were asked and answered yes.
C14_Witness ==
  /\ pc = "done"
  /\ asked = << [prompt |-> "skipped", answer |-> "yes"],
                [prompt |-> "existing", answer |-> "yes"] >>
  /\ CallsOfKind(calls, "createLabel") # << >>

\* ------------------------------------------------------------------ C15
\* C15: once a confirmation was declined or cancelled the run is over, with
\* exit code zero, and no mutating call was issued.
C15_DeclineEndsCleanly ==
  (\E n \in 1..Len(asked) : asked[n].answer # "yes") =>
    /\ pc = "exited"
    /\ exitCode = 0
    /\ exitVia = "cancel"
    /\ NoMutatingCall

\* The run ended on a cancelled second confirmation, the first accepted.
C15_Witness ==
  /\ pc = "exited"
  /\ exitCode = 0
  /\ asked = << [prompt |-> "skipped", answer |-> "yes"],
                [prompt |-> "existing", answer |-> "cancel"] >>

\* ------------------------------------------------------------------ C16
\* C16: without --keep-closed no issue-create call is issued for a closed
\* card; with --keep-closed a completed run has issued one for every closed
\* card, as for the open ones.
C16_ClosedCardsNeedKeepClosed ==
  /\ ~opts.keepClosed =>
       \A q \in Positions("createIssue") : ~CardOf(calls[q]).closed
  /\ (opts.keepClosed /\ pc = "done") =>
       \A c \in 1..Len(trello.cards) :
         \E q \in Positions("createIssue") : calls[q].card = c

\* ------------------------------------------------------------------ C17
\* C17: a run started with --dry-run never issues a mutating call.
C17_DryRunMutatesNothing ==
  opts.dryRun => NoMutatingCall

\* ------------------------------------------------------------------ C18
UserLookups == CallsOfKind(calls, "getUser")

\* The entries of `users` without a GitHub side.
Unresolved == {n \in 1..Len(users) : ~users[n].github.present}

\* The user lookups are over: the run is, or ended, past them.
LookupsOver ==
  Position \notin {"parse", "fetch", "fetchMilestones", "users"}

\* C18: the lookups follow the mapping's `users` entries in order, one each,
\* and every answered lookup leaves one entry, unresolved when the user was not
\* found; an unresolved entry does not stop the lookups, and the run then ends
\* at the validation gate with a non-zero exit; any other lookup failure ends
\* the run at once, with a non-zero exit and the failed lookup as last call;
\* in both cases no mutating call is issued.
C18_UserLookups ==
  /\ Len(UserLookups) <= Len(map.users)
  /\ \A n \in 1..Len(UserLookups) : UserLookups[n].name = map.users[n].github
  /\ Len(users) <= Len(UserLookups)
  /\ \A n \in 1..Len(users) :
       /\ users[n].trelloName = map.users[n].trello
       /\ ~users[n].github.present => users[n].githubName = map.users[n].github
  /\ LookupsOver =>
       (Len(UserLookups) = Len(map.users) /\ Len(users) = Len(map.users))
  /\ Unresolved # {} =>
       /\ NoMutatingCall
       /\ Position \in PreReconcile \cup {"gate"}
       /\ pc = "exited" => exitCode # 0
       /\ (pc = "exited" /\ exitAt = "gate") => exitVia = "fail"
  /\ (pc = "exited" /\ exitAt = "users") =>
       /\ exitVia = "throw"
       /\ exitCode # 0
       /\ Len(UserLookups) = Len(users) + 1
       /\ calls[Len(calls)].kind = "getUser"
       /\ NoMutatingCall

\* A run whose first user was not found and whose second was looked up all
\* the same, ended by the validation gate.
C18_Witness ==
  /\ pc = "exited"
  /\ exitAt = "gate"
  /\ exitCode = 1
  /\ Len(users) = 2
  /\ ~users[1].github.present
  /\ users[2].github.present
  /\ Len(UserLookups) = 2

\* ------------------------------------------------------------------ C19
ValidatingPositions == PreReconcile \cup {"gate"}
ConfirmingPositions == {"confirmSkipped", "confirmExisting"}

\* The driver's phase: 1 Validating, 2 Confirming, 3 Executing, 4 Done.  A run
\* that ended early stays in the phase it ended in.
Phase ==
  IF Position \in ValidatingPositions THEN 1
  ELSE IF Position \in ConfirmingPositions THEN 2
  ELSE IF Position \in ExecutingPositions THEN 3
  ELSE 4

Aborted == pc = "exited" /\ exitVia \in {"fail", "cancel"}

PhasesAndExitCodes ==
  /\ Aborted => Phase \in {1, 2}
  /\ (pc = "exited" /\ exitVia = "fail") => (Phase = 1 /\ exitCode # 0)
  /\ (pc = "exited" /\ exitVia = "cancel") => (Phase = 2 /\ exitCode = 0)
  /\ (pc = "exited" /\ exitVia = "throw") => exitCode # 0
  /\ pc = "exited" => exitVia \in {"fail", "cancel", "throw"}
  /\ pc = "done" <=> Phase = 4
  /\ pc = "done" => exitCode = 0
  /\ pc \notin {"done", "exited"} => exitCode = -1
  /\ exitCode = 0 => (pc = "done" \/ (pc = "exited" /\ exitVia = "cancel"))

PhaseStep ==
  /\ pc \notin {"done", "exited"}
  /\ Phase' \in {Phase, Phase + 1}

\* C19: the phase only moves Validating, Confirming, Executing, Done, one
\* phase at a time; a run is aborted only in Validating, with a non-zero exit,
\* or in Confirming, with exit zero; nothing follows Done or the end of the
\* process; and the exit code is zero exactly on Done or on a cancellation,
\* non-zero on a validation failure or an uncaught error.
C19_PhasesAndExits == [](PhasesAndExitCodes) /\ [][PhaseStep]_vars

\* A run ended by an uncaught error while executing, with a non-zero exit,
\* after both confirmations.
C19_Witness ==
  /\ pc = "exited"
  /\ exitVia = "throw"
  /\ Phase = 3
  /\ exitCode = 1
  /\ Len(asked) = 2

\* ------------------------------------------------------------------ C20
LabelCalls == CallsOfKind(calls, "createLabel")
IssueCalls == CallsOfKind(calls, "createIssue")
ToCreate == SelectSeq(labels, LAMBDA l : l.type = "toCreate")

CallsInOrder ==
  /\ Len(LabelCalls) <= Len(ToCreate)
  /\ \A n \in 1..Len(LabelCalls) :
       /\ LabelCalls[n].name = ToCreate[n].github.name
       /\ LabelCalls[n].color = StripHash(ToCreate[n].github.color)
  /\ IssueCalls # << >> =>
       /\ Len(LabelCalls) = Len(ToCreate)
       /\ \A p \in Positions("createLabel") :
            \A q \in Positions("createIssue") : p < q
  /\ Len(IssueCalls) <= Len(trello.cards)
  /\ \A n \in 1..Len(IssueCalls) : IssueCalls[n].card = n
  /\ pc = "done" => Len(IssueCalls) = Len(trello.cards)

\* A step issues at most one remote call, after those issued before it.
OneCallAtATime ==
  \/ calls' = calls
  \/ /\ Len(calls') = Len(calls) + 1
     /\ SubSeq(calls', 1, Len(calls)) = calls

\* C20: the create-label calls follow the toCreate entries in classification
\* order and are all issued before the first issue-create call; the
\* issue-create calls follow the cards of the export in order, one per card,
\* all of them in a completed run; and the calls are issued one at a time,
\* each step of the run adding at most one.
C20_SequentialExecution == [](CallsInOrder) /\ [][OneCallAtATime]_vars

\* A completed run that created two different labels and two issues.
C20_Witness ==
  /\ pc = "done"
  /\ Len(LabelCalls) = 2
  /\ LabelCalls[1].name # LabelCalls[2].name
  /\ Len(IssueCalls) = 2

\* ------------------------------------------------------------------ C21
CardKinds == {"createIssue", "createComment", "addProjectItem", "setStatus"}
ProjectKinds == {"addProjectItem", "setStatus"}

\* The calls issued for card c, in order.
CallsOfCard(c) ==
  SelectSeq(calls, LAMBDA call : call.kind \in CardKinds /\ call.card = c)

\* The place of a kind in a card's sequence of calls.
KindRank(kind) ==
  CASE kind = "createIssue" -> 1
    [] kind = "createComment" -> 2
    [] kind = "addProjectItem" -> 3
    [] kind = "setStatus" -> 4

Count(s, kind) == Len(CallsOfKind(s, kind))

\* Every call of card c is issued: a later card has a call, or the loop is over.
CardComplete(c) ==
  \/ pc \in {"outro", "done"}
  \/ \E n \in 1..Len(calls) : calls[n].kind \in CardKinds /\ calls[n].card > c

CardSequences ==
  /\ \A p, q \in 1..Len(calls) :
       (p < q /\ calls[p].kind \in CardKinds /\ calls[q].kind \in CardKinds) =>
         calls[p].card <= calls[q].card
  /\ \A c \in 1..Len(trello.cards) :
       LET s == CallsOfCard(c)
       IN /\ \A n \in 1..(Len(s) - 1) : KindRank(s[n].kind) <= KindRank(s[n + 1].kind)
          /\ Count(s, "createIssue") <= 1
          /\ s # << >> => s[1].kind = "createIssue"
          /\ Count(s, "addProjectItem") <= 1
          /\ Count(s, "setStatus") <= Count(s, "addProjectItem")
          /\ map.project = 0 => (\A n \in 1..Len(s) : s[n].kind \notin ProjectKinds)
          /\ CardComplete(c) =>
               /\ Count(s, "createIssue") = 1
               /\ Count(s, "addProjectItem") = IF map.project # 0 THEN 1 ELSE 0

\* What a step's new call is addressed to: a comment to the issue just
\* returned, an item addition to its node id, a status to the item just
\* returned, each for the card in hand.
CallAddressing ==
  Len(calls') = Len(calls) + 1 =>
    LET call == calls'[Len(calls')]
    IN /\ call.kind \in CardKinds => call.card = i
       /\ call.kind = "createComment" => call.issue = issue.number
       /\ call.kind = "addProjectItem" => call.node = issue.node_id
       /\ call.kind = "setStatus" => call.item = itemId
       /\ call.kind # "createIssue" => issue' = issue

\* C21: the calls of each card are one issue-create, then its comment-create
\* calls, each addressed to the issue number just returned, then, iff a project
\* is configured, one add-project-item call with the issue's node id and at
\* most one set-status call with the item id just returned; no call of a card
\* follows a call of a later card; without a project no project call is issued.
C21_CallsOfACard == [](CardSequences) /\ [][CallAddressing]_vars

\* A completed run with a project whose first card got an issue, a comment,
\* an item and whose second card got an issue, an item and a status.
C21_Witness ==
  /\ pc = "done"
  /\ Len(trello.cards) = 2
  /\ Count(CallsOfCard(1), "createComment") >= 1
  /\ Count(CallsOfCard(1), "addProjectItem") = 1
  /\ Count(CallsOfCard(2), "setStatus") = 1

\* ------------------------------------------------------------------ C22
SchemaFailure == ~parseOk.trello \/ ~parseOk.map

\* C22: when the export or the mapping fails its schema, once the documents
\* are parsed the run is over with a non-zero exit, every failing document has
\* its error report, and no GitHub call, lookup or mutation, is issued.
C22_SchemaErrorsAbortBeforeAnyCall ==
  SchemaFailure =>
    /\ calls = << >>
    /\ pc \in {"parse", "exited"}
    /\ pc = "exited" =>
         /\ exitAt = "parse"
         /\ exitCode # 0
         /\ ~parseOk.trello <=> "exportSchema" \in Range(log)
         /\ ~parseOk.map <=> "mapSchema" \in Range(log)

\* A run over two failing documents, ended with both reports.
C22_Witness ==
  /\ ~parseOk.trello
  /\ ~parseOk.map
  /\ pc = "exited"
  /\ exitCode = 1
  /\ log = << "exportSchema", "mapSchema" >>

\* ------------------------------------------------------------------ C23
\* (i) the GitHub names of the mapped or toCreate labels bearing the Trello
\* name of one of the card's labels.
OwnLabelNames(card) ==
  {labels[n].github.name :
     n \in {m \in 1..Len(labels) :
              /\ labels[m].type \in {"mapped", "toCreate"}
              /\ labels[m].trello.name \in Range(card.labels)}}

\* (ii) as stated: the GitHub names of all listMapped labels of the card's list.
AllListLabelNames(card) == {labels[n].github.name : n \in ListLabelsOf(card)}

\* (ii) as amended: the GitHub name of the first listMapped label of the
\* card's list.
FirstListLabelName(card) ==
  IF ListLabelsOf(card) = {} THEN {}
  ELSE {labels[Least(ListLabelsOf(card))].github.name}

\* C23 as stated: the labels of every issue payload are the names (i) and the
\* names of every listMapped classification of the card's list, nothing else.
C23_PayloadLabelsAreTheUnion ==
  \A q \in Positions("createIssue") :
    Range(calls[q].labels)
      = OwnLabelNames(CardOf(calls[q])) \cup AllListLabelNames(CardOf(calls[q]))

\* C23 as amended: the labels of every card, as rendered once the labels are
\* classified and as sent in its issue payload, are the names (i) and the name
\* of the first listMapped classification of the card's list, nothing else.
C23_PayloadLabelsAreOwnAndFirstListLabel ==
  /\ Reconciled =>
       \A c \in 1..Len(trello.cards) :
         Range(getLabelsForCard(trello.cards[c], mappedLabels))
           = OwnLabelNames(trello.cards[c]) \cup FirstListLabelName(trello.cards[c])
  /\ \A q \in Positions("createIssue") :
       Range(calls[q].labels)
         = OwnLabelNames(CardOf(calls[q])) \cup FirstListLabelName(CardOf(calls[q]))

\* An issue was created for a card with a label of its own and whose list has
\* two listMapped labels of different names: the payload holds the card's
\* label and the first of the two.
C23_Witness ==
  \E q \in Positions("createIssue") :
    /\ OwnLabelNames(CardOf(calls[q])) # {}
    /\ Cardinality(AllListLabelNames(CardOf(calls[q]))) = 2
    /\ Cardinality(Range(calls[q].labels)) = 2

\* ------------------------------------------------------------------ C24
\* The resolved `users` entries naming the board member of that id, by id,
\* username or full name; none when the board has no such member.
ResolvedEntriesNaming(id) ==
  {n \in 1..Len(users) :
     /\ users[n].github.present
     /\ \E t \in 1..Len(trello.members) :
          /\ trello.members[t].id = id
          /\ users[n].trelloName \in {trello.members[t].id,
                                      trello.members[t].username,
                                      trello.members[t].fullName}}

\* The logins of the member ids, in order, a member nobody resolves left out.
RECURSIVE LoginsOf(_)
LoginsOf(ids) ==
  IF ids = << >> THEN << >>
  ELSE (IF ResolvedEntriesNaming(Head(ids)) = {} THEN << >>
        ELSE << users[Least(ResolvedEntriesNaming(Head(ids)))].github.login >>)
         \o LoginsOf(Tail(ids))

\* The user lookups are over and left the run alive, or it ended later.
UsersLookedUp == LookupsOver /\ Len(users) = Len(map.users)

\* C24: the assignees of a card, as mapped once the users are looked up and as
\* sent in its issue payload, are the logins of its member ids in order; an id
\* that is not a board member's, that no entry names, or that only unresolved
\* entries name, adds nothing.
C24_AssigneesAreResolvedMembers ==
  /\ UsersLookedUp =>
       \A c \in 1..Len(trello.cards) :
         mapMemberIds(trello.cards[c].idMembers, trello.members, validMembers)
           = LoginsOf(trello.cards[c].idMembers)
  /\ \A q \in Positions("createIssue") :
       calls[q].assignees = LoginsOf(CardOf(calls[q]).idMembers)

\* A completed run that created the issue of a card with two members, one
\* resolved and one missing from the board, with the resolved one as assignee.
C24_Witness ==
  /\ pc = "done"
  /\ \E q \in Positions("createIssue") :
       /\ Len(CardOf(calls[q]).idMembers) = 2
       /\ Len(calls[q].assignees) = 1

\* ------------------------------------------------------------------ C25
\* The values that name no list of the board, in the order they are read:
\* those of `lists[].list`, then those of `skip.lists[]`.
UnresolvedListRefs ==
  SelectSeq([n \in 1..Len(map.lists) |-> map.lists[n].list],
            LAMBDA key : ListsNamed(key) = {})
    \o SelectSeq(map.skip.lists, LAMBDA key : ListsNamed(key) = {})

\* C25: once the tables are built, invalidLists holds exactly the
\* `lists[].list` and `skip.lists[]` values that name no list of the board by
\* id or by name, every resolved `skip.lists[]` value has its list recorded,
\* and a non-empty invalidLists ends the run at the validation gate, with a
\* non-zero exit and without a mutating call.
C25_InvalidListRefsAbort ==
  Reconciled =>
    /\ invalidLists = UnresolvedListRefs
    /\ \A n \in 1..Len(map.skip.lists) :
         \A l \in ListsNamed(map.skip.lists[n]) :
           \E m \in 1..Len(skippedLists) :
             skippedLists[m].id = trello.lists[l].id
    /\ invalidLists # << >> =>
         /\ Position = "gate"
         /\ pc = "exited" => (exitVia = "fail" /\ exitCode # 0)
         /\ NoMutatingCall

\* A run ended by the gate over a `lists[]` entry naming no list, another
\* entry naming a list by its name.
C25_Witness ==
  /\ pc = "exited"
  /\ exitAt = "gate"
  /\ exitCode = 1
  /\ invalidLists = << "Nope" >>
  /\ \E n \in 1..Len(map.lists) : map.lists[n].list = "Todo"
  /\ "invalidLists" \in Range(log)

\* ------------------------------------------------------------------ C26
\* The mapping's `labels` without the entries that a former entry of the same
\* `trello` name precedes.
FirstEntriesOnly ==
  LET kept == {n \in 1..Len(map.labels) : FirstEntry(map.labels[n].trello) = n}
      Nth[r \in 0..Len(map.labels)] ==
        IF r = 0 THEN 0
        ELSE IF \E n \in kept : n > Nth[r - 1]
             THEN Least({n \in kept : n > Nth[r - 1]})
             ELSE 0
  IN [r \in 1..Cardinality(kept) |-> map.labels[Nth[r]]]

\* The classified labels the mapping gives without its later entries: the
\* Trello labels classified anew, the labels of the lists as they are.
LabelsByFirstEntries ==
  [n \in 1..Len(labels) |->
     IF n <= Len(trello.labels)
     THEN ClassifyLabel(trello.labels[n], FirstEntriesOnly, githubLabels)
     ELSE labels[n]]

\* Two entries of the mapping's `labels` share a `trello` name and differ.
SharedTrelloName ==
  \E a, b \in 1..Len(map.labels) :
    a < b /\ map.labels[a].trello = map.labels[b].trello
          /\ map.labels[a] # map.labels[b]

\* C26: the classified labels, and the labels of every issue payload, are
\* those the mapping gives when every entry that follows another entry of the
\* same `trello` name is removed from it: the first entry alone decides.
C26_FirstLabelEntryDecides ==
  /\ Reconciled => labels = LabelsByFirstEntries
  /\ \A q \in Positions("createIssue") :
       calls[q].labels
         = getLabelsForCard(CardOf(calls[q]),
                            SelectSeq(LabelsByFirstEntries,
                                      LAMBDA l : l.type \in {"toCreate", "mapped",
                                                             "listMapped"}))

\* An issue was created for a card whose label has two differing entries, the
\* first mapping it to an existing label, the second creating one: the payload
\* holds the existing label's name.
C26_Witness ==
  /\ SharedTrelloName
  /\ Len(map.labels) = 2
  /\ ~map.labels[1].create
  /\ map.labels[2].create
  /\ \E q \in Positions("createIssue") :
       /\ map.labels[1].trello \in Range(CardOf(calls[q]).labels)
       /\ map.labels[1].github.str \in Range(calls[q].labels)
       /\ map.labels[2].github.str \notin Range(calls[q].labels)

\* ------------------------------------------------------------------ C27
\* One Markdown link line per attachment of a card.
AttachmentLines(card) ==
  [n \in 1..Len(card.attachments) |->
     "- [" \o card.attachments[n].name \o "](" \o card.attachments[n].url \o ")"]

\* The body of a card up to the end of its footer line: what is rendered for
\* the card when it has no attachment.
BodyUpToFooter(card) ==
  getDescriptionForCard([card EXCEPT !.attachments = << >>], trello.checklists)

\* C27: the body of every created issue is the description with its
\* separator, the checklist block and the footer line ending with the card
\* url, followed, when the card has attachments, by one link line per
\* attachment, each on a line of its own.
C27_AttachmentsOnTheirOwnLines ==
  \A q \in Positions("createIssue") :
    LET card == CardOf(calls[q])
    IN calls[q].body
         = BodyUpToFooter(card)
             \o (IF card.attachments = << >> THEN ""
                 ELSE "\n" \o Join(AttachmentLines(card), "\n"))

\* ------------------------------------------------------------------ C28
\* The kind of call issued at each position of Executing.
KindAt(position) ==
  CASE position = "createLabels" -> "createLabel"
    [] position = "issue" -> "createIssue"
    [] position = "comment" -> "createComment"
    [] position = "addItem" -> "addProjectItem"
    [] position = "setStatus" -> "setStatus"
    [] OTHER -> ""

\* The process ended in Executing: one of its calls failed.
FailedInExecuting == pc = "exited" /\ exitAt \in ExecutingPositions

\* After a failure in Executing the exit is non-zero, the last call issued is
\* the failing one, issued once, and no call belongs to a later card; every
\* call ever issued is a lookup or a creation.
FailureIsFinal ==
  /\ \A n \in 1..Len(calls) :
       calls[n].kind \in MutatingKinds
                           \cup {"getLabels", "getMilestones", "getUser", "getProject"}
  /\ FailedInExecuting =>
       /\ exitVia = "throw"
       /\ exitCode # 0
       /\ calls # << >>
       /\ LET failing == calls[Len(calls)]
          IN /\ failing.kind = KindAt(exitAt)
             /\ failing.kind \in CardKinds =>
                  /\ failing.card = i
                  /\ \A n \in 1..Len(calls) :
                       calls[n].kind \in CardKinds => calls[n].card <= i
             /\ failing.kind = "createLabel" =>
                  \A n \in 1..Len(calls) : calls[n].kind \notin CardKinds
             /\ failing.kind \in {"createIssue", "addProjectItem", "setStatus"} =>
                  \A n \in 1..(Len(calls) - 1) :
                    ~(calls[n].kind = failing.kind /\ calls[n].card = failing.card)

\* No step follows the end of the process, and a step leaves every call
\* already issued in place, adding at most one.
NothingAfterTheEnd ==
  /\ pc \notin {"exited", "done"}
  /\ Len(calls') \in {Len(calls), Len(calls) + 1}
  /\ SubSeq(calls', 1, Len(calls)) = calls

\* C28: a remote call that fails during Executing is the last call of the
\* run: it is not issued again, no call follows it for its card or a later
\* one, the calls issued before it stay as they are, only lookups and
\* creations were ever issued, and the process ends with a non-zero exit.
C28_FailureStopsTheRun == [](FailureIsFinal) /\ [][NothingAfterTheEnd]_vars

\* The comment of the first card failed after its issue was created: the
\* run is over with exit 1, the issue stays, the second card has no call.
C28_Witness ==
  /\ FailedInExecuting
  /\ exitAt = "comment"
  /\ exitCode = 1
  /\ Len(trello.cards) = 2
  /\ i = 1
  /\ Count(calls, "createIssue") = 1
  /\ calls[Len(calls)].kind = "createComment"

\* ------------------------------------------------------------------ C29
\* The `lists[]` entries that carry a `label`.
LabelledEntries == {n \in 1..Len(map.lists) : Truthy(map.lists[n].label)}

\* Those of them whose list is on the board.
ResolvedLabelledEntries == LabelledEntries \cap ResolvedEntries

\* The classified labels are one tag per Trello label, in board order, out of
\* skipped, toCreate, missing and mapped, followed by one tag per entry of
\* `entries`, in mapping order, out of listMapped and missingList, and no other.
OneTagPerLabelAndPer(entries) ==
  /\ Len(labels) = Len(trello.labels) + Cardinality(entries)
  /\ \A n \in 1..Len(trello.labels) :
       /\ labels[n].type \in {"skipped", "toCreate", "missing", "mapped"}
       /\ labels[n].trello = trello.labels[n]
  /\ \A n \in entries :
       LET tag == labels[Len(trello.labels) + Cardinality({m \in entries : m <= n})]
       IN /\ tag.type \in {"listMapped", "missingList"}
          /\ tag.type = "missingList" => tag.githubLookup = map.lists[n].label
          /\ tag.type = "listMapped" =>
               \/ IntIs(map.lists[n].label, tag.github.id)
               \/ StrIs(map.lists[n].label, tag.github.name)

\* C29 (as stated): once reconciled, the classified labels hold one tag per
\* Trello label and one per `lists[]` entry that carries a `label`.
C29_OneTagPerLabelAndPerListEntry ==
  Reconciled => OneTagPerLabelAndPer(LabelledEntries)

\* C29: once reconciled, the classified labels hold one tag per Trello label,
\* in board order, and one per `lists[]` entry that carries a `label` and
\* whose list is on the board, in mapping order, that tag carrying the list;
\* an entry whose list is not on the board has no tag.
C29_OneTagPerLabelAndPerResolvedListEntry ==
  Reconciled =>
    /\ OneTagPerLabelAndPer(ResolvedLabelledEntries)
    /\ \A n \in ResolvedLabelledEntries :
         LET tag == labels[Len(trello.labels)
                             + Cardinality({m \in ResolvedLabelledEntries : m <= n})]
         IN tag.trelloList = trello.lists[Least(ListsNamed(map.lists[n].list))]

\* A reconciled run whose mapping has a labelled entry of a list that is not
\* on the board, which has no tag, and a labelled entry of a list that is,
\* which has one, after the tags of the Trello labels.
C29_Witness ==
  /\ Reconciled
  /\ Len(map.lists) = 2
  /\ LabelledEntries = {1, 2}
  /\ ResolvedLabelledEntries = {2}
  /\ Len(labels) = Len(trello.labels) + 1
  /\ labels[Len(labels)].type = "listMapped"
  /\ labels[1].type = "toCreate"

\* ------------------------------------------------------------------ C30
\* The `lists[]` entries that resolve to list l of the board.
EntriesOfList(l) ==
  {n \in 1..Len(map.lists) :
     ListsNamed(map.lists[n].list) # {} /\ Least(ListsNamed(map.lists[n].list)) = l}

\* The listMapped tags of the list of that id, in classification order.
ListTagsOf(listId) ==
  {t \in 1..Len(labels) :
     labels[t].type = "listMapped" /\ labels[t].trelloList.id = listId}

\* C30: once reconciled, for every list of the board that entries of `lists[]`
\* resolve to, the label looked up for its cards, its entry of the milestone
\* table and its entry of the status table all answer the first of those
\* entries: its `label`, its `milestone`, its `status`.
C30_ListTablesFromFirstEntry ==
  Reconciled =>
    \A l \in 1..Len(trello.lists) :
      EntriesOfList(l) # {} =>
        LET first == map.lists[Least(EntriesOfList(l))]
            id == trello.lists[l].id
        IN /\ ListTagsOf(id) # {} =>
                LET gh == labels[Least(ListTagsOf(id))].github
                IN IntIs(first.label, gh.id) \/ StrIs(first.label, gh.name)
           /\ id \in DOMAIN validMilestones =>
                \/ IntIs(first.milestone, validMilestones[id].id)
                \/ IntIs(first.milestone, validMilestones[id].number)
                \/ StrIs(first.milestone, validMilestones[id].title)
           /\ id \in DOMAIN validStatusFields =>
                \/ StrIs(first.status, validStatusFields[id].id)
                \/ StrIs(first.status, validStatusFields[id].name)

====
